---- MODULE Spec2Model ----
(***************************************************************************)
(* RWLock of src/src/states.rs: a reader-writer lock kept in a 32-bit      *)
(* atomic word shared by several lock instances, each instance with a      *)
(* private 8-bit shadow counter (current_lock).                            *)
(*                                                                         *)
(* The 32-bit word is kept as a record [hi, lo]: hi is the top byte (bits  *)
(* 24..31, bit 31 being the write flag), lo the low 24 bits (the reader    *)
(* count).  All u32 arithmetic of the code is done on this pair with the   *)
(* carries and borrows of the 32-bit operation.                            *)
(*                                                                         *)
(* Every load of the shared word is one atomic step: each of the           *)
(* initialized()/writelocked()/readlocked() checks, the first load of      *)
(* fetch_update, and each compare-exchange attempt of fetch_update.  The   *)
(* closure of fetch_update runs before each compare-exchange attempt, and  *)
(* runs again after an attempt that found the word changed.  The shadow    *)
(* byte is private to its instance, so the closure's access to it is part  *)
(* of the step of the attempt.  A compare-exchange fails only when the     *)
(* word differs from the value the closure was given.                      *)
(***************************************************************************)
EXTENDS Integers, Sequences, FiniteSets, TLC

\* ------------------------------------------------------------------ bounds
\* Calls of lock_read/unlock_read/lock_write/unlock_write one instance makes.
MaxCalls == 3
\* usize::MAX of spin's try counter, scaled down.
UsizeMax == 3
\* Largest reader count of the initial states of SpecSpin.
MaxInitReaders == 3

\* The lock instances that share the word.
Inst == {"A", "B"}

\* ------------------------------------------------------- u8 / u32 helpers
U8 == 256
LoSize == 16777216

RECURSIVE And(_, _)
And(x, y) ==
    IF x = 0 \/ y = 0 THEN 0
    ELSE (x % 2) * (y % 2) + 2 * And(x \div 2, y \div 2)

RECURSIVE Or(_, _)
Or(x, y) ==
    IF x = 0 THEN y
    ELSE IF y = 0 THEN x
    ELSE (IF x % 2 = 1 \/ y % 2 = 1 THEN 1 ELSE 0) + 2 * Or(x \div 2, y \div 2)

RECURSIVE Xor(_, _)
Xor(x, y) ==
    IF x = 0 THEN y
    ELSE IF y = 0 THEN x
    ELSE (((x % 2) + (y % 2)) % 2) + 2 * Xor(x \div 2, y \div 2)

Word(h, l) == [hi |-> h, lo |-> l]
WordAnd(a, b) == Word(And(a.hi, b.hi), And(a.lo, b.lo))
WordOr(a, b) == Word(Or(a.hi, b.hi), Or(a.lo, b.lo))
WordXor(a, b) == Word(Xor(a.hi, b.hi), Xor(a.lo, b.lo))
WordLt(a, b) == a.hi < b.hi \/ (a.hi = b.hi /\ a.lo < b.lo)
\* lock + 1 on u32
WordInc(a) ==
    IF a.lo + 1 < LoSize THEN Word(a.hi, a.lo + 1)
    ELSE Word((a.hi + 1) % U8, 0)
\* lock.max(1) - 1 on u32
WordMax1Dec(a) ==
    IF a.hi = 0 /\ a.lo = 0 THEN Word(0, 0)
    ELSE IF a.lo > 0 THEN Word(a.hi, a.lo - 1)
    ELSE Word(a.hi - 1, LoSize - 1)

ZERO == Word(0, 0)

\* ------------------------------------------------------------- constants
INITIALIZE_MASK == Word(255, 0)
WRITE_LOCK_MASK == Word(128, 0)
READ_LOCK_MASK == Word(0, LoSize - 1)
HOLDING_W == 128
HOLDING_R == 127

\* ----------------------------------------------------------------- state
VARIABLES
    chunk,          \* the shared AtomicU32
    current_lock,   \* [Inst -> 0..255], each instance's shadow byte
    pc,             \* [Inst -> position of the instance's running call]
    prev,           \* [Inst -> the value fetch_update last loaded]
    ret,            \* [Inst -> <<operation, result>> of the last finished call]
    calls,          \* [Inst -> number of lock/unlock calls started]
    holdW,          \* [Inst -> lock_write returned Ok and not yet released]
    holdR,          \* [Inst -> read locks obtained and not yet released]
    inited,         \* set_init has been called since the last from_raw
    tries,          \* [Inst -> the caller's try counter handed to spin]
    scenPos,        \* calls of Script started in order, -1 when off script
    scenRes,        \* results of the calls of Script finished so far
    cl0,            \* [Inst -> the shadow byte when the last call started]
    snap            \* a lock_read then unlock_read run with nothing interleaved

vars == <<chunk, current_lock, pc, prev, ret, calls, holdW, holdR, inited,
          tries, scenPos, scenRes, cl0, snap>>

\* --------------------------------------------------------------- queries
initialized(i) ==
    WordLt(WordAnd(chunk, INITIALIZE_MASK), INITIALIZE_MASK)
    \/ current_lock[i] < 255

readlocked_shadow_only(i) ==
    And(current_lock[i], HOLDING_R) > 0

readlocked(i) ==
    WordLt(ZERO, WordAnd(chunk, READ_LOCK_MASK))
    \/ And(current_lock[i], HOLDING_R) > 0

writelocked_shadow_only(i) ==
    And(current_lock[i], HOLDING_W) = HOLDING_W

writelocked(i) ==
    WordAnd(chunk, WRITE_LOCK_MASK) = WRITE_LOCK_MASK
    \/ And(current_lock[i], HOLDING_W) = HOLDING_W

locked(i) ==
    WordLt(WordAnd(chunk, INITIALIZE_MASK), INITIALIZE_MASK)
    \/ current_lock[i] > 0

\* Fields of the shared word and of a shadow byte, as the spec names them.
WriteFlag(w) == WordAnd(w, WRITE_LOCK_MASK) = WRITE_LOCK_MASK
ReaderCount(w) == WordAnd(w, READ_LOCK_MASK).lo
ShadowW(i) == And(current_lock[i], HOLDING_W) = HOLDING_W
ShadowR(i) == And(current_lock[i], HOLDING_R)

\* ------------------------------------------------ the two-instance scenario
\* The calls of the scenario, in order, and the bookkeeping that follows a run
\* of the program along them: scenPos counts the calls of Script started in
\* order and without overlap since set_init left the word idle; any other call
\* takes the run off the script (scenPos = -1).
Script ==
    << <<"A", "lock_write">>, <<"B", "lock_read">>, <<"A", "unlock_write">>,
       <<"B", "lock_read">>, <<"A", "lock_write">> >>

ScenStart(i, op) ==
    IF /\ scenPos >= 0
       /\ scenPos < Len(Script)
       /\ Len(scenRes) = scenPos
       /\ Script[scenPos + 1] = <<i, op>>
       /\ (scenPos = 0 => chunk = ZERO /\ \A j \in Inst : current_lock[j] = 0)
    THEN scenPos + 1
    ELSE -1

\* ------------------------------------------- lock_read then unlock_read
\* The bookkeeping that follows one instance through a lock_read started while
\* no other call runs and the unlock_read it calls next, as long as no other
\* instance starts a call: the word and the shadow byte before the lock_read,
\* and how far the two calls have come ("lock", "locked", "unlock", "done").
NoSnap == [stage |-> "none", inst |-> "A", word |-> ZERO, cl |-> 0]

SnapBegin(i, op) ==
    IF op = "lock_read" /\ \A j \in Inst \ {i} : pc[j] = "idle"
    THEN [stage |-> "lock", inst |-> i, word |-> chunk, cl |-> current_lock[i]]
    ELSE IF op = "unlock_read" /\ snap.stage = "locked" /\ snap.inst = i
    THEN [snap EXCEPT !.stage = "unlock"]
    ELSE NoSnap

SnapReturn(s, i, res) ==
    IF s.stage = "lock" /\ s.inst = i
    THEN IF res = "Ok" THEN [s EXCEPT !.stage = "locked"] ELSE NoSnap
    ELSE IF s.stage = "unlock" /\ s.inst = i
    THEN [s EXCEPT !.stage = "done"]
    ELSE s

\* ------------------------------------------------- call and return of a call
HoldWAfter(i, op, res) ==
    IF op = "lock_write" /\ res = "Ok" THEN [holdW EXCEPT ![i] = TRUE]
    ELSE IF op = "unlock_write" /\ res = "Ok" THEN [holdW EXCEPT ![i] = FALSE]
    ELSE holdW

HoldRAfter(i, op, res) ==
    IF op = "lock_read" /\ res = "Ok" THEN [holdR EXCEPT ![i] = @ + 1]
    ELSE IF op = "unlock_read" /\ res = "Ok" /\ holdR[i] > 0
         THEN [holdR EXCEPT ![i] = @ - 1]
    ELSE holdR

\* The call of op starts and goes on at position next.
Begin(i, op, next) ==
    /\ pc[i] = "idle"
    /\ calls[i] < MaxCalls
    /\ pc' = [pc EXCEPT ![i] = next]
    /\ calls' = [calls EXCEPT ![i] = @ + 1]
    /\ scenPos' = ScenStart(i, op)
    /\ scenRes' = IF ScenStart(i, op) = -1 THEN <<>> ELSE scenRes
    /\ cl0' = [cl0 EXCEPT ![i] = current_lock[i]]
    /\ snap' = SnapBegin(i, op)
    /\ UNCHANGED <<prev, ret, holdW, holdR, inited, tries>>

\* The call of op starts and returns res in its first step.
BeginReturn(i, op, res) ==
    /\ pc[i] = "idle"
    /\ calls[i] < MaxCalls
    /\ calls' = [calls EXCEPT ![i] = @ + 1]
    /\ ret' = [ret EXCEPT ![i] = <<op, res>>]
    /\ holdW' = HoldWAfter(i, op, res)
    /\ holdR' = HoldRAfter(i, op, res)
    /\ scenPos' = ScenStart(i, op)
    /\ scenRes' = IF ScenStart(i, op) = -1 THEN <<>> ELSE Append(scenRes, res)
    /\ cl0' = [cl0 EXCEPT ![i] = current_lock[i]]
    /\ snap' = SnapReturn(SnapBegin(i, op), i, res)
    /\ UNCHANGED <<pc, prev, inited, tries>>

\* The running call goes on at position next.
Goto(i, next) ==
    /\ pc' = [pc EXCEPT ![i] = next]
    /\ UNCHANGED <<ret, calls, holdW, holdR, inited, tries, scenPos, scenRes,
                   cl0, snap>>

\* The running call of op returns res.
Return(i, op, res) ==
    /\ pc' = [pc EXCEPT ![i] = "idle"]
    /\ prev' = [prev EXCEPT ![i] = ZERO]
    /\ ret' = [ret EXCEPT ![i] = <<op, res>>]
    /\ holdW' = HoldWAfter(i, op, res)
    /\ holdR' = HoldRAfter(i, op, res)
    /\ scenRes' = IF scenPos >= 1 /\ Len(scenRes) < scenPos
                  THEN Append(scenRes, res) ELSE scenRes
    /\ snap' = SnapReturn(snap, i, res)
    /\ UNCHANGED <<calls, inited, tries, scenPos, cl0>>

\* fetch_update's first load of the word.
FetchLoad(i, at, next) ==
    /\ pc[i] = at
    /\ prev' = [prev EXCEPT ![i] = chunk]
    /\ Goto(i, next)
    /\ UNCHANGED <<chunk, current_lock>>

\* One run of fetch_update's closure on the value last loaded, and the
\* compare-exchange that follows it.  r is what the closure yields on prev[i]
\* and current_lock[i], as [some, next, cl]: whether it returned Some, the new
\* word, and the shadow byte as it leaves it.
FetchAttempt(i, at, r, op, err) ==
    /\ pc[i] = at
    /\ current_lock' = [current_lock EXCEPT ![i] = r.cl]
    /\ IF ~r.some
       THEN /\ UNCHANGED chunk
            /\ Return(i, op, err)
       ELSE IF chunk = prev[i]
       THEN /\ chunk' = r.next
            /\ Return(i, op, "Ok")
       ELSE /\ UNCHANGED chunk
            /\ prev' = [prev EXCEPT ![i] = chunk]
            /\ Goto(i, at)

\* ---------------------------------------------------- from_raw and set_init
FromRaw(i) ==
    /\ pc[i] = "idle"
    /\ chunk' = INITIALIZE_MASK
    /\ current_lock' = [current_lock EXCEPT ![i] = 0]
    /\ ret' = [ret EXCEPT ![i] = <<"from_raw", "Ok">>]
    /\ inited' = FALSE
    /\ holdW' = [j \in Inst |-> FALSE]
    /\ holdR' = [j \in Inst |-> 0]
    /\ scenPos' = -1
    /\ scenRes' = <<>>
    /\ cl0' = [cl0 EXCEPT ![i] = 0]
    /\ snap' = NoSnap
    /\ UNCHANGED <<pc, prev, calls, tries>>

SetInit(i) ==
    /\ pc[i] = "idle"
    /\ chunk' = ZERO
    /\ current_lock' = [current_lock EXCEPT ![i] = 0]
    /\ ret' = [ret EXCEPT ![i] = <<"set_init", "Ok">>]
    /\ inited' = TRUE
    /\ holdW' = [j \in Inst |-> FALSE]
    /\ holdR' = [j \in Inst |-> 0]
    /\ scenPos' = 0
    /\ scenRes' = <<>>
    /\ cl0' = [cl0 EXCEPT ![i] = 0]
    /\ snap' = NoSnap
    /\ UNCHANGED <<pc, prev, calls, tries>>

\* The caller's obligation for set_init: no call is running and no lock is
\* taken.
Quiescent ==
    \A j \in Inst : pc[j] = "idle" /\ ~holdW[j] /\ holdR[j] = 0

\* ---------------------------------------------------------------- lock_read
lock_read_closure_no_local_bound(lock, cl) ==
    IF WordAnd(lock, READ_LOCK_MASK) = READ_LOCK_MASK
    THEN [some |-> FALSE, next |-> lock, cl |-> cl]
    ELSE [some |-> TRUE, next |-> WordInc(lock), cl |-> (cl + 1) % U8]

lock_read_closure_no_shared_bound(lock, cl) ==
    IF cl = HOLDING_R
    THEN [some |-> FALSE, next |-> lock, cl |-> cl]
    ELSE [some |-> TRUE, next |-> WordInc(lock), cl |-> (cl + 1) % U8]

lock_read_closure(lock, cl) ==
    IF WordAnd(lock, READ_LOCK_MASK) = READ_LOCK_MASK \/ cl = HOLDING_R
    THEN [some |-> FALSE, next |-> lock, cl |-> cl]
    ELSE [some |-> TRUE, next |-> WordInc(lock), cl |-> (cl + 1) % U8]

LockReadInit(i) ==
    /\ IF ~initialized(i)
       THEN BeginReturn(i, "lock_read", "Uninitialized")
       ELSE Begin(i, "lock_read", "lr_wl")
    /\ UNCHANGED <<chunk, current_lock>>

LockReadWl(i) ==
    /\ pc[i] = "lr_wl"
    /\ IF writelocked(i)
       THEN Return(i, "lock_read", "WriteLocked")
       ELSE Goto(i, "lr_load") /\ UNCHANGED prev
    /\ UNCHANGED <<chunk, current_lock>>

LockReadLoad(i) == FetchLoad(i, "lr_load", "lr_cas")

LockReadCas(i) ==
    FetchAttempt(i, "lr_cas", lock_read_closure(prev[i], current_lock[i]),
                 "lock_read", "MaxReaders")

lock_read(i) ==
    LockReadInit(i) \/ LockReadWl(i) \/ LockReadLoad(i) \/ LockReadCas(i)

\* -------------------------------------------------------------- unlock_read
unlock_read_closure_keeps_shadow(lock, cl) ==
    IF WordAnd(lock, READ_LOCK_MASK) = ZERO \/ cl = 0
    THEN [some |-> FALSE, next |-> lock, cl |-> cl]
    ELSE [some |-> TRUE, next |-> WordMax1Dec(lock), cl |-> cl]

unlock_read_closure(lock, cl) ==
    IF WordAnd(lock, READ_LOCK_MASK) = ZERO \/ cl = 0
    THEN [some |-> FALSE, next |-> lock, cl |-> cl]
    ELSE [some |-> TRUE, next |-> WordMax1Dec(lock),
          cl |-> (cl + U8 - 1) % U8]

UnlockReadInit(i) ==
    /\ IF ~initialized(i)
       THEN BeginReturn(i, "unlock_read", "Uninitialized")
       ELSE Begin(i, "unlock_read", "ur_wl")
    /\ UNCHANGED <<chunk, current_lock>>

UnlockReadWl(i) ==
    /\ pc[i] = "ur_wl"
    /\ IF writelocked(i)
       THEN Return(i, "unlock_read", "WriteLocked")
       ELSE Goto(i, "ur_load") /\ UNCHANGED prev
    /\ UNCHANGED <<chunk, current_lock>>

UnlockReadLoad(i) == FetchLoad(i, "ur_load", "ur_cas")

UnlockReadCas(i) ==
    FetchAttempt(i, "ur_cas", unlock_read_closure(prev[i], current_lock[i]),
                 "unlock_read", "MaxReaders")

unlock_read(i) ==
    UnlockReadInit(i) \/ UnlockReadWl(i) \/ UnlockReadLoad(i) \/ UnlockReadCas(i)

\* --------------------------------------------------------------- lock_write
lock_write_closure(lock, cl) ==
    [some |-> TRUE, next |-> WordOr(lock, WRITE_LOCK_MASK),
     cl |-> Or(cl, HOLDING_W)]

LockWriteInit(i) ==
    /\ IF ~initialized(i)
       THEN BeginReturn(i, "lock_write", "Uninitialized")
       ELSE Begin(i, "lock_write", "lw_wl")
    /\ UNCHANGED <<chunk, current_lock>>

LockWriteWl(i) ==
    /\ pc[i] = "lw_wl"
    /\ IF writelocked(i)
       THEN Return(i, "lock_write", "WriteLocked")
       ELSE Goto(i, "lw_rl") /\ UNCHANGED prev
    /\ UNCHANGED <<chunk, current_lock>>

LockWriteRl(i) ==
    /\ pc[i] = "lw_rl"
    /\ IF readlocked(i)
       THEN Return(i, "lock_write", "ReadLocked")
       ELSE Goto(i, "lw_load") /\ UNCHANGED prev
    /\ UNCHANGED <<chunk, current_lock>>

LockWriteLoad(i) == FetchLoad(i, "lw_load", "lw_cas")

LockWriteCas(i) ==
    FetchAttempt(i, "lw_cas", lock_write_closure(prev[i], current_lock[i]),
                 "lock_write", "GeneralFailure")

lock_write(i) ==
    \/ LockWriteInit(i) \/ LockWriteWl(i) \/ LockWriteRl(i)
    \/ LockWriteLoad(i) \/ LockWriteCas(i)

\* ------------------------------------------------------------- unlock_write
unlock_write_closure_no_holder_check(lock, cl) ==
    [some |-> TRUE, next |-> WordXor(lock, WRITE_LOCK_MASK),
     cl |-> Xor(cl, HOLDING_W)]

unlock_write_closure(lock, cl) ==
    IF And(cl, HOLDING_W) = 0
    THEN [some |-> FALSE, next |-> lock, cl |-> cl]
    ELSE [some |-> TRUE, next |-> WordXor(lock, WRITE_LOCK_MASK),
          cl |-> Xor(cl, HOLDING_W)]

UnlockWriteWl_no_early_return(i) ==
    /\ Begin(i, "unlock_write", "uw_init")
    /\ UNCHANGED <<chunk, current_lock>>

UnlockWriteWl(i) ==
    /\ IF ~writelocked(i)
       THEN BeginReturn(i, "unlock_write", "Ok")
       ELSE Begin(i, "unlock_write", "uw_init")
    /\ UNCHANGED <<chunk, current_lock>>

UnlockWriteInit(i) ==
    /\ pc[i] = "uw_init"
    /\ IF ~initialized(i)
       THEN Return(i, "unlock_write", "Uninitialized")
       ELSE Goto(i, "uw_load") /\ UNCHANGED prev
    /\ UNCHANGED <<chunk, current_lock>>

UnlockWriteLoad(i) == FetchLoad(i, "uw_load", "uw_cas")

UnlockWriteCas(i) ==
    FetchAttempt(i, "uw_cas", unlock_write_closure(prev[i], current_lock[i]),
                 "unlock_write", "GeneralFailure")

unlock_write(i) ==
    \/ UnlockWriteWl(i) \/ UnlockWriteInit(i)
    \/ UnlockWriteLoad(i) \/ UnlockWriteCas(i)

\* --------------------------------------------------------------------- spin
\* tries.add_assign(1): usize addition overflows at usize::MAX, which panics
\* in a build with overflow checks (-1 here) and wraps to 0 in one without.
SpinAdd(t) == IF t < UsizeMax THEN {t + 1} ELSE {-1, 0}

spin(i) ==
    /\ pc[i] = "idle"
    /\ \E t \in SpinAdd(tries[i]) :
        IF t = -1
        THEN /\ pc' = [pc EXCEPT ![i] = "panicked"]
             /\ UNCHANGED <<tries, ret>>
        ELSE /\ tries' = [tries EXCEPT ![i] = t]
             /\ ret' = [ret EXCEPT ![i] =
                    <<"spin", IF locked(i) THEN "Ok(true)"
                              ELSE IF t = UsizeMax THEN "LockViolation"
                              ELSE "Ok(false)">>]
             /\ UNCHANGED pc
    /\ UNCHANGED <<chunk, current_lock, prev, calls, holdW, holdR, inited,
                   scenPos, scenRes, cl0, snap>>

\* ----------------------------------------------------------- specifications
Idle == [i \in Inst |-> "idle"]

\* One instance made by from_raw, the other by from_existing over the same
\* word; set_init only when no call runs and no lock is taken.
Init ==
    /\ chunk = INITIALIZE_MASK
    /\ current_lock = [i \in Inst |-> 0]
    /\ pc = Idle
    /\ prev = [i \in Inst |-> ZERO]
    /\ ret = [i \in Inst |-> IF i = "A" THEN <<"from_raw", "Ok">>
                             ELSE <<"from_existing", "Ok">>]
    /\ calls = [i \in Inst |-> 0]
    /\ holdW = [i \in Inst |-> FALSE]
    /\ holdR = [i \in Inst |-> 0]
    /\ inited = FALSE
    /\ tries = [i \in Inst |-> 0]
    /\ scenPos = -1
    /\ scenRes = <<>>
    /\ cl0 = current_lock
    /\ snap = NoSnap

Next ==
    \E i \in Inst :
        \/ Quiescent /\ SetInit(i)
        \/ lock_read(i)
        \/ unlock_read(i)
        \/ lock_write(i)
        \/ unlock_write(i)

Spec == Init /\ [][Next]_vars

\* set_init and from_raw on a word and shadow bytes in any state: the word as
\* from_existing may find it, the shadow bytes as calls may have left them.
HiSamples == {0, 1, 127, 128, 255}
LoSamples == {0, 1, LoSize - 1}
ShadowSamples == {0, 1, 127, 128}

InitAny ==
    /\ chunk \in {Word(h, l) : h \in HiSamples, l \in LoSamples}
    /\ current_lock \in [Inst -> ShadowSamples]
    /\ pc = Idle
    /\ prev = [i \in Inst |-> ZERO]
    /\ ret = [i \in Inst |-> <<"from_existing", "Ok">>]
    /\ calls = [i \in Inst |-> 0]
    /\ holdW = [i \in Inst |-> FALSE]
    /\ holdR = [i \in Inst |-> 0]
    /\ inited = FALSE
    /\ tries = [i \in Inst |-> 0]
    /\ scenPos = -1
    /\ scenRes = <<>>
    /\ cl0 = current_lock
    /\ snap = NoSnap

NextInit == \E i \in Inst : SetInit(i) \/ FromRaw(i)

SpecInit == InitAny /\ [][NextInit]_vars

\* spin on a word that no call changes: uninitialized, idle, read by up to
\* MaxInitReaders readers, or held by a writer.
InitSpin ==
    /\ chunk \in {INITIALIZE_MASK, WRITE_LOCK_MASK}
                 \cup {Word(0, n) : n \in 0..MaxInitReaders}
    /\ current_lock \in [Inst -> (0..MaxInitReaders) \cup {HOLDING_W}]
    /\ chunk = INITIALIZE_MASK => \A i \in Inst : current_lock[i] = 0
    /\ chunk = WRITE_LOCK_MASK =>
        /\ \A i \in Inst : current_lock[i] \in {0, HOLDING_W}
        /\ Cardinality({i \in Inst : current_lock[i] = HOLDING_W}) <= 1
    /\ chunk.hi = 0 =>
        /\ \A i \in Inst : current_lock[i] < HOLDING_W
        /\ current_lock["A"] + current_lock["B"] <= chunk.lo
    /\ pc = Idle
    /\ prev = [i \in Inst |-> ZERO]
    /\ ret = [i \in Inst |-> <<"from_existing", "Ok">>]
    /\ calls = [i \in Inst |-> 0]
    /\ holdW = [i \in Inst |-> current_lock[i] = HOLDING_W]
    /\ holdR = [i \in Inst |-> IF current_lock[i] < HOLDING_W
                               THEN current_lock[i] ELSE 0]
    /\ inited = (chunk # INITIALIZE_MASK)
    /\ tries = [i \in Inst |-> 0]
    /\ scenPos = -1
    /\ scenRes = <<>>
    /\ cl0 = current_lock
    /\ snap = NoSnap

NextSpin == \E i \in Inst : spin(i)

SpecSpin == InitSpin /\ [][NextSpin]_vars

\* The lock in use, with read locks taken up to the bounds of the shadow
\* byte: instance A with 0, 126 or 127 read locks, instance B with 0 or 1, the
\* reader count their sum, and bits 24..30 of the word clear, or all set when
\* A has no read lock.  Each instance has made one call already.
HiEdge == {0, 127}
ShadowEdgeA == {0, HOLDING_R - 1, HOLDING_R}
ShadowEdgeB == {0, 1}

InitEdge ==
    /\ current_lock \in [Inst -> ShadowEdgeA]
    /\ current_lock["B"] \in ShadowEdgeB
    /\ chunk \in {Word(h, current_lock["A"] + current_lock["B"]) : h \in HiEdge}
    /\ chunk.hi # 0 => current_lock["A"] = 0
    /\ pc = Idle
    /\ prev = [i \in Inst |-> ZERO]
    /\ ret = [i \in Inst |-> <<"from_existing", "Ok">>]
    /\ calls = [i \in Inst |-> 1]
    /\ holdW = [i \in Inst |-> FALSE]
    /\ holdR = current_lock
    /\ inited = TRUE
    /\ tries = [i \in Inst |-> 0]
    /\ scenPos = -1
    /\ scenRes = <<>>
    /\ cl0 = current_lock
    /\ snap = NoSnap

SpecEdge == InitEdge /\ [][Next]_vars

\* ------------------------------------------------------------------ claims
\* Instances attached to a word whose reader count is at either end of its
\* 24-bit field: one or no step below the maximum, or 0 under a non-zero top
\* byte.
LoFull == {LoSize - 2, LoSize - 1}
ShadowFull == {0, 1}

InitFull ==
    /\ current_lock \in [Inst -> ShadowFull]
    /\ current_lock["B"] = 0
    /\ chunk \in {Word(0, l) : l \in LoFull} \cup {Word(h, 0) : h \in HiEdge \ {0}}
    /\ pc = Idle
    /\ prev = [i \in Inst |-> ZERO]
    /\ ret = [i \in Inst |-> <<"from_existing", "Ok">>]
    /\ calls = [i \in Inst |-> 1]
    /\ holdW = [i \in Inst |-> FALSE]
    /\ holdR = current_lock
    /\ inited = TRUE
    /\ tries = [i \in Inst |-> 0]
    /\ scenPos = -1
    /\ scenRes = <<>>
    /\ cl0 = current_lock
    /\ snap = NoSnap

SpecFull == InitFull /\ [][Next]_vars

\* All five operations of the trait on an initialized, idle word, one lock or
\* unlock call and any number of spin calls for each instance, with a
\* scheduler that keeps running every thread that is inside a call.
InitLive ==
    /\ chunk = ZERO
    /\ current_lock = [i \in Inst |-> 0]
    /\ pc = Idle
    /\ prev = [i \in Inst |-> ZERO]
    /\ ret = [i \in Inst |-> <<"from_existing", "Ok">>]
    /\ calls = [i \in Inst |-> MaxCalls - 1]
    /\ holdW = [i \in Inst |-> FALSE]
    /\ holdR = current_lock
    /\ inited = TRUE
    /\ tries = [i \in Inst |-> 0]
    /\ scenPos = -1
    /\ scenRes = <<>>
    /\ cl0 = current_lock
    /\ snap = NoSnap

NextLive == Next \/ \E i \in Inst : spin(i)

Running(i) ==
    /\ pc[i] \notin {"idle", "panicked"}
    /\ lock_read(i) \/ unlock_read(i) \/ lock_write(i) \/ unlock_write(i)

SpecLive ==
    InitLive /\ [][NextLive]_vars /\ \A i \in Inst : WF_vars(Running(i))

Holders == {i \in Inst : holdW[i]}

\* C1: reader/writer mutual exclusion.  In no reachable state does one
\* instance hold the write lock (lock_write returned Ok, not yet released)
\* while another instance holds a read lock (lock_read returned Ok, not yet
\* released).
C1_ReadWriteExclusion ==
    \A i \in Inst : \A j \in Inst \ {i} : ~(holdW[i] /\ holdR[j] > 0)

\* C2: writer/writer mutual exclusion.  At most one instance holds the write
\* lock; once initialized, whenever the shared write flag is set exactly one
\* instance holds the write lock; and at most one instance with no call
\* running has the write bit of its shadow byte set.
C2_WriteWriteExclusion ==
    /\ Cardinality(Holders) <= 1
    /\ (inited /\ WriteFlag(chunk) => Cardinality(Holders) = 1)
    /\ Cardinality({i \in Inst : pc[i] = "idle" /\ ShadowW(i)}) <= 1

\* C3: the two-instance scenario with non-overlapping calls.  From the
\* initialized idle word, A.lock_write, B.lock_read, A.unlock_write,
\* B.lock_read, A.lock_write return Ok, WriteLocked, Ok, Ok, ReadLocked, and
\* then the word has the write flag clear and reader count 1, A's shadow byte
\* is 0 and B's shadow read count is 1.
ScriptResults == <<"Ok", "WriteLocked", "Ok", "Ok", "ReadLocked">>

C3_Scenario ==
    scenPos >= 0 =>
        /\ \A k \in 1..Len(scenRes) : scenRes[k] = ScriptResults[k]
        /\ Len(scenRes) = Len(Script) =>
            /\ ~WriteFlag(chunk)
            /\ ReaderCount(chunk) = 1
            /\ current_lock["A"] = 0
            /\ ShadowR("B") = 1

C3_Witness == scenPos = Len(Script) /\ Len(scenRes) = Len(Script)

\* C4: immediately after set_init on an instance, from any prior state of the
\* word and of its shadow byte, initialized() is true and locked(),
\* readlocked() and writelocked() are false.
C4_PostInitialize ==
    \A i \in Inst :
        ret[i][1] = "set_init" /\ inited =>
            /\ initialized(i)
            /\ ~locked(i)
            /\ ~readlocked(i)
            /\ ~writelocked(i)

\* C5: after from_raw and before any set_init, initialized() is false.
C5_FromRawUninitialized ==
    \A i \in Inst : ret[i][1] = "from_raw" /\ ~inited => ~initialized(i)

\* C6: before set_init has been called by anyone, lock_read, unlock_read and
\* lock_write return Err(Uninitialized) and leave the word at the
\* uninitialized sentinel and the shadow byte at 0.
C6_RefusedBeforeInit ==
    \A i \in Inst :
        ~inited /\ ret[i][1] \in {"lock_read", "unlock_read", "lock_write"} =>
            /\ ret[i][2] = "Uninitialized"
            /\ chunk = INITIALIZE_MASK
            /\ current_lock[i] = 0

\* C7: on an initialized lock on which no lock is held (word 0, shadow 0),
\* spin with tries below the maximum returns Ok(false) and increments tries
\* by exactly one.
C7_SpinUnlocked ==
    [][\A i \in Inst :
        spin(i) /\ chunk = ZERO /\ current_lock[i] = 0
                /\ tries[i] + 1 < UsizeMax =>
            /\ ret'[i] = <<"spin", "Ok(false)">>
            /\ tries'[i] = tries[i] + 1]_vars

\* C8: while a lock is held, spin returns Ok(true) as long as tries stays
\* below its maximum, and the call that brings tries to the maximum returns
\* Err(LockViolation).
SomeLockHeld ==
    chunk # INITIALIZE_MASK /\ (WriteFlag(chunk) \/ ReaderCount(chunk) > 0)

C8_SpinGivesUp ==
    [][\A i \in Inst :
        spin(i) /\ SomeLockHeld /\ tries[i] < UsizeMax =>
            /\ tries'[i] = tries[i] + 1
            /\ tries'[i] < UsizeMax => ret'[i] = <<"spin", "Ok(true)">>
            /\ tries'[i] = UsizeMax => ret'[i] = <<"spin", "LockViolation">>]_vars

\* C9: whenever neither the shared write flag nor the caller's shadow write
\* bit is set, unlock_write returns Ok in its first step and changes neither
\* the word nor any shadow byte, whatever the reader count and the
\* initialization byte.
C9_UnlockWriteNoop ==
    [][\A i \in Inst :
        UnlockWriteWl(i) /\ ~WriteFlag(chunk) /\ ~ShadowW(i) =>
            /\ ret'[i] = <<"unlock_write", "Ok">>
            /\ pc'[i] = "idle"
            /\ chunk' = chunk
            /\ current_lock' = current_lock]_vars

C9_Witness ==
    \E i \in Inst :
        /\ ret[i] = <<"unlock_write", "Ok">>
        /\ calls[i] = 2
        /\ ~WriteFlag(chunk)
        /\ ~ShadowW(i)
        /\ ReaderCount(chunk) > 0
        /\ chunk.hi # 0

\* C10: in every step of lock_read and unlock_read the shadow byte changes by
\* at most one, without wrapping and without touching its write bit, so its
\* low 7 bits stay within 0..127; a lock_read of an instance whose shadow
\* byte is 127 and an unlock_read of one whose shadow byte is 0 leave the
\* shadow byte unchanged and return an error of Errs.
ShadowStep(i) ==
    /\ current_lock'[i] - current_lock[i] \in {-1, 0, 1}
    /\ ShadowW(i)' = ShadowW(i)
    /\ ShadowR(i)' \in 0..HOLDING_R

AtBound(i, Errs) ==
    /\ current_lock'[i] = current_lock[i]
    /\ pc'[i] = "idle" => ret'[i][2] \in Errs

ShadowReadBounds(Errs) ==
    \A i \in Inst :
        /\ lock_read(i) \/ unlock_read(i) => ShadowStep(i)
        /\ lock_read(i) /\ current_lock[i] = HOLDING_R => AtBound(i, Errs)
        /\ unlock_read(i) /\ current_lock[i] = 0 => AtBound(i, Errs)

\* C10 as stated: the error is MaxReaders.
C10_ShadowReadBounds_Original == [][ShadowReadBounds({"MaxReaders"})]_vars

\* C10 as amended: the error is MaxReaders, or WriteLocked when the
\* writelocked() check of the call finds a write lock.
C10_ShadowReadBounds == [][ShadowReadBounds({"MaxReaders", "WriteLocked"})]_vars

C10_Witness ==
    \E i \in Inst :
        /\ ret[i] = <<"lock_read", "MaxReaders">>
        /\ calls[i] = 2
        /\ current_lock[i] = HOLDING_R
        /\ holdR[i] = HOLDING_R

\* C11: read lock round trip.  When a lock_read that returned Ok is followed
\* by an unlock_read of the same instance, nothing else being interleaved
\* from the start of the lock_read on, the unlock_read returns Ok and the
\* word and the shadow byte are what they were before the lock_read.
C11_ReadRoundTrip ==
    snap.stage = "done" =>
        /\ ret[snap.inst] = <<"unlock_read", "Ok">>
        /\ chunk = snap.word
        /\ current_lock[snap.inst] = snap.cl

\* set_init; lock_read; unlock_read has ended in the word 0 and shadow 0.
C11_Witness ==
    /\ snap.stage = "done"
    /\ snap.word = ZERO
    /\ snap.cl = 0
    /\ ret[snap.inst] = <<"unlock_read", "Ok">>
    /\ \E j \in Inst : ret[j] = <<"set_init", "Ok">>

\* C12: lock_write refusal.  The writelocked() check of lock_write returns
\* Err(WriteLocked) whenever the shared write flag or the caller's shadow
\* write bit is set, whatever the reader counts; the readlocked() check that
\* follows it returns Err(ReadLocked) whenever the shared reader count or the
\* caller's shadow read count is nonzero; and no step of lock_write up to and
\* including these checks changes the word or a shadow byte.
Refused(i, err) ==
    /\ ret'[i] = <<"lock_write", err>>
    /\ pc'[i] = "idle"

C12_LockWriteRefusal ==
    [][\A i \in Inst :
        /\ LockWriteWl(i) /\ (WriteFlag(chunk) \/ ShadowW(i)) =>
            Refused(i, "WriteLocked")
        /\ LockWriteRl(i) /\ (ReaderCount(chunk) > 0 \/ ShadowR(i) > 0) =>
            Refused(i, "ReadLocked")
        /\ LockWriteInit(i) \/ LockWriteWl(i) \/ LockWriteRl(i) =>
            chunk' = chunk /\ current_lock' = current_lock]_vars

C12_Witness ==
    \E i \in Inst : \E j \in Inst \ {i} :
        /\ inited
        /\ ret[i] = <<"lock_write", "ReadLocked">>
        /\ current_lock[i] = 0
        /\ holdR[j] > 0
        /\ ReaderCount(chunk) > 0

\* C13: shared reader-count discipline.  No step of unlock_read changes the
\* word when its reader count is 0, and no step increments the reader count
\* while the shared write flag is set.
C13_ReaderCountDiscipline ==
    [][/\ \A i \in Inst :
            unlock_read(i) /\ ReaderCount(chunk) = 0 => chunk' = chunk
       /\ ReaderCount(chunk') > ReaderCount(chunk) => ~WriteFlag(chunk)]_vars

C15_ShadowWithinShared ==
    \A i \in Inst :
        inited /\ pc[i] = "idle" =>
            /\ ShadowR(i) <= ReaderCount(chunk)
            /\ ShadowW(i) => WriteFlag(chunk)

\* C16: reader-count arithmetic stays inside its field.  No step of
\* lock_read or unlock_read changes bits 24-31 of the shared word.  A
\* lock_read that finds the write flag clear while the reader count is at its
\* maximum reaches its fetch_update, and a fetch_update attempt of lock_read
\* on a loaded word whose 24 low bits are all set returns Err(MaxReaders) and
\* leaves the word alone.
C16_ReaderCountInField ==
    [][\A i \in Inst :
        /\ lock_read(i) \/ unlock_read(i) => chunk'.hi = chunk.hi
        /\ (LockReadInit(i) \/ LockReadWl(i) \/ LockReadLoad(i))
           /\ ReaderCount(chunk) = LoSize - 1
           /\ ~WriteFlag(chunk) /\ ~ShadowW(i) =>
            pc'[i] # "idle"
        /\ LockReadCas(i) /\ ReaderCount(prev[i]) = LoSize - 1 =>
            /\ ret'[i] = <<"lock_read", "MaxReaders">>
            /\ pc'[i] = "idle"
            /\ chunk' = chunk]_vars

\* A lock_read was refused at the maximum count by an instance that is below
\* its own bound.
C16_Witness ==
    \E i \in Inst :
        /\ ret[i] = <<"lock_read", "MaxReaders">>
        /\ pc[i] = "idle"
        /\ ReaderCount(chunk) = LoSize - 1
        /\ current_lock[i] < HOLDING_R
        /\ ~WriteFlag(chunk)

\* C17: the operations are non-blocking.  A fetch_update attempt goes round
\* again only when the word has changed since it was loaded, spin ends in the
\* step that starts it, and every call that has started returns.
C17_NonBlocking ==
    /\ [][\A i \in Inst :
            /\ (LockReadCas(i) \/ UnlockReadCas(i) \/ LockWriteCas(i)
                \/ UnlockWriteCas(i)) /\ pc'[i] # "idle" => chunk # prev[i]
            /\ spin(i) => pc'[i] = "idle" /\ ret'[i][1] = "spin"]_vars
    /\ \A i \in Inst : (pc[i] # "idle") ~> (pc[i] = "idle")

\* C18: unlock_write only ever clears the flag.  No step of unlock_write
\* takes the shared write flag from clear to set, and the step in which
\* unlock_write returns Ok leaves the flag clear.
C18_UnlockWriteOnlyClears ==
    [][\A i \in Inst :
        unlock_write(i) =>
            /\ ~(~WriteFlag(chunk) /\ WriteFlag(chunk'))
            /\ pc'[i] = "idle" /\ ret'[i] = <<"unlock_write", "Ok">> =>
                ~WriteFlag(chunk')]_vars

\* C19: failed operations change nothing.  When a lock or unlock call of an
\* instance has returned an error, the instance's shadow byte is what it was
\* when the call started.  (The only store to the shared word is the
\* compare-exchange that makes the call return Ok.)
C19_FailedChangesNothing ==
    \A i \in Inst :
        /\ pc[i] = "idle"
        /\ ret[i][1] \in {"lock_read", "unlock_read", "lock_write", "unlock_write"}
        /\ ret[i][2] # "Ok"
        => current_lock[i] = cl0[i]

\* C20: the lock always returns to Idle.  After set_init, no state in which
\* no call is in progress and every shadow byte is 0 has a shared word that
\* still records a reader or a writer.
C20_ReturnsToIdle ==
    /\ inited
    /\ \A i \in Inst : pc[i] = "idle" /\ current_lock[i] = 0
    => ReaderCount(chunk) = 0 /\ ~WriteFlag(chunk)
====
